---- MODULE Spec2Model ----
(***************************************************************************)
(* Model of SchedSim/schedsim.c: the four scheduling engines (FCFS,        *)
(* Priority, preemptive SJF/SRTF, Round Robin) computing waiting and       *)
(* turnaround time over a batch of process records.                        *)
(*                                                                         *)
(* One behaviour of the model is one engine call of main() on its own      *)
(* clone of the parsed batch.  Arrays keep the C indices 0 .. n-1.         *)
(***************************************************************************)
EXTENDS Integers, Sequences, FiniteSets

\* ------------------------------------------------------------------------
\* Bounds of the explored inputs.
MaxN == 2         \* batch sizes 1 .. MaxN
MaxBurst == 2     \* burst times 1 .. MaxBurst
MaxArr == 2       \* arrival times 0 .. MaxArr
MaxPri == 1       \* priorities 0 .. MaxPri
MaxQuantum == 2   \* quanta 1 .. MaxQuantum

\* Program constants.
DefaultQuantum == 2
INT_MAX == 2147483647

Policies == {"FCFS", "Priority", "SJF", "RR"}

VARIABLES
    policy,           \* which engine main() is calling in this run
    n,                \* number of processes parsed
    quantum,          \* quantum handed to findavgTimeRR
    plist,            \* the parsed batch (main's plist)
    plist_fcfs,       \* the four clones made by main
    plist_priority,
    plist_sjf,
    plist_rr,
    pc,               \* position of the running engine
    i,                \* findWaitingTimeFCFS: loop index
    service_time,     \* findWaitingTimeFCFS: service_time[]
    rem_bt,           \* SJF / RR: remaining burst times
    t,                \* SJF / RR: simulated clock
    complete,         \* SJF: complete, RR: completed
    finish_time,      \* RR: finish_time[]
    in_queue,         \* RR: in_queue[]
    queue,            \* RR: circular ready queue
    front,
    rear,
    queue_size,
    sorted_idx,       \* RR: indices sorted by arrival time
    next_arrival_idx, \* RR: cursor into sorted_idx
    curr,             \* RR: the process dequeued in this iteration
    exec_time,        \* RR: length of the slice of this iteration
    waited,           \* history: units each process spent arrived but not running
    clock,            \* history: simulated time accounted for in `waited`
    order             \* history: positions in completion order

vars == <<policy, n, quantum, plist, plist_fcfs, plist_priority, plist_sjf,
          plist_rr, pc, i, service_time, rem_bt, t, complete, finish_time,
          in_queue, queue, front, rear, queue_size, sorted_idx,
          next_arrival_idx, curr, exec_time, waited, clock, order>>

fcfsVars == <<i, service_time>>
simVars == <<rem_bt, t, complete>>
rrVars == <<finish_time, in_queue, queue, front, rear, queue_size,
            sorted_idx, next_arrival_idx, curr, exec_time>>
inputVars == <<policy, n, quantum, plist>>

\* ------------------------------------------------------------------------
\* Helpers.
Idx == 0 .. (n - 1)

Max(a, b) == IF a < b THEN b ELSE a

\* Number of time units of [from, to) that lie at or after `art`.
Overlap(from, to, art) == Max(0, to - Max(from, art))

\* ProcessType (process.h), as used by schedsim.c.
Proc(pid, bt, art, pri) ==
    [pid |-> pid, bt |-> bt, art |-> art, pri |-> pri, wt |-> 0, tat |-> 0]

\* The clone the running engine was handed (main, lines 301-311).
Active ==
    CASE policy = "FCFS" -> plist_fcfs
      [] policy = "Priority" -> plist_priority
      [] policy = "SJF" -> plist_sjf
      [] OTHER -> plist_rr

\* variant: the four clones are one array
SetActive_Aliased(new) ==
    /\ plist_fcfs' = new
    /\ plist_priority' = new
    /\ plist_sjf' = new
    /\ plist_rr' = new

\* An engine writes its own clone and no other.
SetActive(new) ==
    /\ plist_fcfs' = IF policy = "FCFS" THEN new ELSE plist_fcfs
    /\ plist_priority' = IF policy = "Priority" THEN new ELSE plist_priority
    /\ plist_sjf' = IF policy = "SJF" THEN new ELSE plist_sjf
    /\ plist_rr' = IF policy = "RR" THEN new ELSE plist_rr

cloneVars == <<plist_fcfs, plist_priority, plist_sjf, plist_rr>>

\* if (wt < 0) wt = 0;
ClampWait(w) == IF w < 0 THEN 0 ELSE w

\* ------------------------------------------------------------------------
\* Inputs.

\* Batches of nn valid records; pid is the input position + 1.  Only the
\* Priority engine reads pri, so the other engines are explored with pri = 0.
Batches(nn, pol) ==
    LET pris == IF pol = "Priority" THEN 0 .. MaxPri ELSE {0}
        field == [bt : 1 .. MaxBurst, art : 0 .. MaxArr, pri : pris]
    IN  { [k \in 0 .. (nn - 1) |-> Proc(k + 1, f[k].bt, f[k].art, f[k].pri)] :
            f \in [0 .. (nn - 1) -> field] }

\* The two batches the specification pins as fixtures.
FixtureSRTF == [k \in 0 .. 1 |-> IF k = 0 THEN Proc(1, 4, 5, 0) ELSE Proc(2, 2, 10, 0)]

FixtureRR ==
    [k \in 0 .. 2 |->
        CASE k = 0 -> Proc(1, 5, 0, 0)
          [] k = 1 -> Proc(2, 3, 1, 0)
          [] OTHER -> Proc(3, 1, 2, 0)]

FirstPc(pol) ==
    CASE pol = "FCFS" -> "fcfs_first"
      [] pol = "Priority" -> "sort"
      [] pol = "SJF" -> "sjf_loop"
      [] OTHER -> "rr_init"

\* main, lines 288-299: the clones, and the locals of the engine about to run.
Start(pol, q, b) ==
    LET nn == Cardinality(DOMAIN b)
        ix == 0 .. (nn - 1)
    IN  /\ policy = pol
        /\ n = nn
        /\ quantum = q
        /\ plist = b
        /\ plist_fcfs = b
        /\ plist_priority = b
        /\ plist_sjf = b
        /\ plist_rr = b
        /\ pc = FirstPc(pol)
        /\ i = 0
        /\ service_time = [k \in ix |-> -1]
        /\ rem_bt = [k \in ix |-> b[k].bt]
        /\ t = 0
        /\ complete = 0
        /\ finish_time = [k \in ix |-> 0]
        /\ in_queue = [k \in ix |-> 0]
        /\ queue = [k \in ix |-> -1]
        /\ front = 0
        /\ rear = 0
        /\ queue_size = 0
        /\ sorted_idx = [k \in ix |-> k]
        /\ next_arrival_idx = 0
        /\ curr = -1
        /\ exec_time = 0
        /\ waited = [k \in ix |-> 0]
        /\ clock = 0
        /\ order = <<>>

Init ==
    \/ \E pol \in Policies, nn \in 1 .. MaxN :
         \E q \in (IF pol = "RR" THEN 1 .. MaxQuantum ELSE {DefaultQuantum}) :
           \E b \in Batches(nn, pol) : Start(pol, q, b)
    \/ \E pol \in Policies : Start(pol, DefaultQuantum, FixtureSRTF)
    \/ \E pol \in Policies : Start(pol, DefaultQuantum, FixtureRR)

\* ------------------------------------------------------------------------
\* History of the simulated timeline: during [from, to) process `running`
\* (-1: nobody) holds the CPU; every other process that is still incomplete
\* accrues the part of the interval at which it has already arrived.
Accrue(w, pl, incompl, running, from, to) ==
    [k \in DOMAIN w |->
        IF k \in incompl /\ k # running
        THEN w[k] + Overlap(from, to, pl[k].art)
        ELSE w[k]]

\* ------------------------------------------------------------------------
\* findTurnAroundTime, lines 46-50.
\* variant: the burst time left out of the sum
TurnAround_NoBurst(p) == p.wt

TurnAround(p) == p.bt + p.wt

FindTurnAroundTime ==
    /\ pc = "tat"
    /\ SetActive([k \in Idx |-> [Active[k] EXCEPT !.tat = TurnAround(Active[k])]])
    /\ pc' = "done"
    /\ UNCHANGED <<inputVars, fcfsVars, simVars, rrVars, waited, clock, order>>

\* ------------------------------------------------------------------------
\* findWaitingTimeFCFS, lines 24-43.

\* lines 31-35
\* variant: the burst of process k added instead of that of k-1
FCFSServiceTime_NextBurst(prev, pl, k) ==
    LET s == prev + pl[k].bt
    IN  IF s < pl[k].art THEN pl[k].art ELSE s

\* variant: the CPU never idles until the arrival of process k
FCFSServiceTime_NoIdle(prev, pl, k) == prev + pl[k - 1].bt

FCFSServiceTime(prev, pl, k) ==
    LET s == prev + pl[k - 1].bt
    IN  IF s < pl[k].art THEN pl[k].art ELSE s

\* lines 37-41
\* variant: the subtraction reversed and the clamp left out
FCFSWait_Reversed(service, art) == art - service

FCFSWait(service, art) == ClampWait(service - art)

\* lines 27-28, and the first test of the for loop
FCFSFirst ==
    /\ pc = "fcfs_first"
    /\ service_time' = [service_time EXCEPT ![0] = Active[0].art]
    /\ SetActive([Active EXCEPT ![0].wt = 0])
    /\ i' = 1
    /\ pc' = IF 1 < n THEN "fcfs_loop" ELSE "tat"
    /\ waited' = Accrue(waited, Active, Idx \ {0}, -1, 0,
                        Active[0].art + Active[0].bt)
    /\ clock' = Active[0].art + Active[0].bt
    /\ order' = <<0>>
    /\ UNCHANGED <<inputVars, simVars, rrVars>>

\* one iteration of the for loop, lines 30-42
FCFSStep ==
    /\ pc = "fcfs_loop"
    /\ i < n
    /\ LET st == FCFSServiceTime(service_time[i - 1], Active, i)
       IN  /\ service_time' = [service_time EXCEPT ![i] = st]
           /\ SetActive([Active EXCEPT ![i].wt = FCFSWait(st, Active[i].art)])
           \* process i waits until st, the later ones until i has finished
           /\ waited' = Accrue(Accrue(waited, Active, {i}, -1, clock, st),
                               Active, {k \in Idx : k > i}, -1,
                               clock, st + Active[i].bt)
           /\ clock' = st + Active[i].bt
    /\ i' = i + 1
    /\ pc' = IF i + 1 < n THEN "fcfs_loop" ELSE "tat"
    /\ order' = Append(order, i)
    /\ UNCHANGED <<inputVars, simVars, rrVars>>

\* ------------------------------------------------------------------------
\* findavgTimePriority, line 224: qsort with my_comparer (lines 10-14).

\* variant: ascending priority
my_comparer_Ascending(p1, p2) == p1.pri - p2.pri

\* p2->pri - p1->pri
my_comparer(p1, p2) == p2.pri - p1.pri

Arrangements(S) == { f \in [S -> S] : \A a, b \in S : a # b => f[a] # f[b] }

\* qsort leaves the order of elements that compare equal unspecified: every
\* arrangement of the array that the comparator accepts as sorted is a
\* possible result.
QsortResults(pl) ==
    { [k \in DOMAIN pl |-> pl[f[k]]] :
        f \in { g \in Arrangements(DOMAIN pl) :
                  \A a, b \in DOMAIN pl :
                     a < b => my_comparer(pl[g[a]], pl[g[b]]) <= 0 } }

SortPriority ==
    /\ pc = "sort"
    /\ policy = "Priority"
    /\ \E sorted \in QsortResults(plist_priority) : SetActive(sorted)
    /\ pc' = "fcfs_first"
    /\ UNCHANGED <<inputVars, fcfsVars, simVars, rrVars, waited, clock, order>>

\* ------------------------------------------------------------------------
\* findWaitingTimeSJF, lines 54-107.

\* lines 65-74: the scan for the arrived process with least remaining time
RECURSIVE ScanShortest(_, _, _, _, _, _)
ScanShortest(pl, rem, now, j, minm, shortest) ==
    IF j >= n THEN shortest
    ELSE IF pl[j].art <= now /\ rem[j] > 0 /\ rem[j] < minm
         THEN ScanShortest(pl, rem, now, j + 1, rem[j], j)
         ELSE ScanShortest(pl, rem, now, j + 1, minm, shortest)

\* variant: ties on remaining time go to the highest index
FindShortest_LastWins(pl, rem, now) ==
    LET ready == { j \in 0 .. (n - 1) : pl[j].art <= now /\ rem[j] > 0 }
        least == { j \in ready : \A k \in ready : rem[j] <= rem[k] }
    IN  IF ready = {} THEN -1 ELSE CHOOSE j \in least : \A k \in least : k <= j

\* variant: the arrival time is not tested
FindShortest_IgnoresArrival(pl, rem, now) ==
    ScanShortest(pl, rem, INT_MAX, 0, INT_MAX, -1)

FindShortest(pl, rem, now) == ScanShortest(pl, rem, now, 0, INT_MAX, -1)

\* lines 78-83: the earliest arrival among the processes not yet complete
RECURSIVE ScanNextArrival(_, _, _, _)
ScanNextArrival(pl, rem, j, next_arrival) ==
    IF j >= n THEN next_arrival
    ELSE IF rem[j] > 0 /\ pl[j].art < next_arrival
         THEN ScanNextArrival(pl, rem, j + 1, pl[j].art)
         ELSE ScanNextArrival(pl, rem, j + 1, next_arrival)

\* scan used by the variant of NextArrival below
RECURSIVE ScanAnyArrival(_, _, _)
ScanAnyArrival(pl, j, next_arrival) ==
    IF j >= n THEN next_arrival
    ELSE IF pl[j].art < next_arrival
         THEN ScanAnyArrival(pl, j + 1, pl[j].art)
         ELSE ScanAnyArrival(pl, j + 1, next_arrival)

\* variant: completed processes are not filtered out of the scan
NextArrival_AnyProcess(pl, rem) == ScanAnyArrival(pl, 0, INT_MAX)

NextArrival(pl, rem) == ScanNextArrival(pl, rem, 0, INT_MAX)

\* lines 95-101 (and 196-199 of the RR engine): finish - burst - arrival
\* variant: the burst time is not subtracted
FinishWait_NoBurst(finish, p) == ClampWait(finish - p.art)

FinishWait(finish, p) == ClampWait(finish - p.bt - p.art)

Incomplete == { k \in Idx : rem_bt[k] > 0 }

\* lines 77-86: nothing is ready, jump to the next arrival
SJFIdle ==
    /\ pc = "sjf_loop"
    /\ complete # n
    /\ FindShortest(Active, rem_bt, t) = -1
    /\ t' = NextArrival(Active, rem_bt)
    /\ waited' = Accrue(waited, Active, Incomplete, -1, t, t')
    /\ clock' = t'
    /\ UNCHANGED <<inputVars, cloneVars, pc, fcfsVars, rem_bt, complete,
                   rrVars, order>>

\* variant: among the ready processes of least remaining time any one may run
SJFExec_AnyTie ==
    /\ pc = "sjf_loop"
    /\ complete # n
    /\ \E shortest \in { j \in Idx : /\ Active[j].art <= t
                                    /\ rem_bt[j] > 0
                                    /\ \A k \in Idx :
                                          (Active[k].art <= t /\ rem_bt[k] > 0)
                                          => rem_bt[j] <= rem_bt[k] } :
           /\ rem_bt' = [rem_bt EXCEPT ![shortest] = @ - 1]
           /\ t' = t + 1
           /\ waited' = Accrue(waited, Active, Incomplete, shortest, t, t + 1)
           /\ clock' = t + 1
           /\ IF rem_bt'[shortest] = 0
              THEN /\ complete' = complete + 1
                   /\ SetActive([Active EXCEPT
                          ![shortest].wt = FinishWait(t', Active[shortest])])
                   /\ order' = Append(order, shortest)
              ELSE /\ UNCHANGED <<complete, cloneVars, order>>
    /\ pc' = IF complete' # n THEN "sjf_loop" ELSE "tat"
    /\ UNCHANGED <<inputVars, fcfsVars, rrVars>>

\* lines 88-102: run the chosen process for one time unit
SJFExec ==
    /\ pc = "sjf_loop"
    /\ complete # n
    /\ LET shortest == FindShortest(Active, rem_bt, t)
       IN  /\ shortest # -1
           /\ rem_bt' = [rem_bt EXCEPT ![shortest] = @ - 1]
           /\ t' = t + 1
           /\ waited' = Accrue(waited, Active, Incomplete, shortest, t, t + 1)
           /\ clock' = t + 1
           /\ IF rem_bt'[shortest] = 0
              THEN /\ complete' = complete + 1
                   /\ SetActive([Active EXCEPT
                          ![shortest].wt = FinishWait(t', Active[shortest])])
                   /\ order' = Append(order, shortest)
              ELSE /\ UNCHANGED <<complete, cloneVars, order>>
    /\ pc' = IF complete' # n THEN "sjf_loop" ELSE "tat"
    /\ UNCHANGED <<inputVars, fcfsVars, rrVars>>

\* ------------------------------------------------------------------------
\* findWaitingTimeRR, lines 111-213.

\* lines 132-134
\* variant: the saved element is never written back
SwapIdx_LostTemp(s, j) == [s EXCEPT ![j] = s[j + 1]]

SwapIdx(s, j) == [s EXCEPT ![j] = s[j + 1], ![j + 1] = s[j]]

\* lines 129-137: bubble sort of the indices by arrival time
RECURSIVE BubbleInner(_, _, _, _)
BubbleInner(pl, s, a, j) ==
    IF j >= n - a - 1 THEN s
    ELSE BubbleInner(pl,
                     IF pl[s[j]].art > pl[s[j + 1]].art THEN SwapIdx(s, j) ELSE s,
                     a, j + 1)

RECURSIVE BubbleOuter(_, _, _)
BubbleOuter(pl, s, a) ==
    IF a >= n - 1 THEN s ELSE BubbleOuter(pl, BubbleInner(pl, s, a, 0), a + 1)

\* variant: the indices are left in input order
SortByArrival_Unsorted(pl) == [k \in 0 .. (n - 1) |-> k]

SortByArrival(pl) == BubbleOuter(pl, [k \in 0 .. (n - 1) |-> k], 0)

\* The ready queue and the arrival cursor, as one value.
QueueState ==
    [queue |-> queue, rear |-> rear, queue_size |-> queue_size,
     in_queue |-> in_queue, next |-> next_arrival_idx]

\* variant: rear is not wrapped around
Enqueue_NoWrap(qs, idx) ==
    [qs EXCEPT !.queue[qs.rear] = idx,
               !.rear = qs.rear + 1,
               !.queue_size = @ + 1]

\* queue[rear] = idx; rear = (rear + 1) % n; queue_size++;
Enqueue(qs, idx) ==
    [qs EXCEPT !.queue[qs.rear] = idx,
               !.rear = (qs.rear + 1) % n,
               !.queue_size = @ + 1]

\* lines 144-151 and 159-166: admit everything that has arrived by `now`
RECURSIVE AdmitArrived(_, _, _, _)
AdmitArrived(pl, sorted, qs, now) ==
    IF qs.next < n /\ pl[sorted[qs.next]].art <= now
    THEN LET idx == sorted[qs.next]
         IN  AdmitArrived(pl, sorted,
                          [Enqueue(qs, idx) EXCEPT !.in_queue[idx] = 1,
                                                   !.next = @ + 1],
                          now)
    ELSE qs

\* lines 182-191: admit what arrived during the slice
\* variant: arrivals during a slice are not admitted after it
AdmitNew_Skipped(pl, sorted, rem, qs, now) == qs

RECURSIVE AdmitNew(_, _, _, _, _)
AdmitNew(pl, sorted, rem, qs, now) ==
    IF qs.next < n /\ pl[sorted[qs.next]].art <= now
    THEN LET idx == sorted[qs.next]
         IN  AdmitNew(pl, sorted, rem,
                      IF qs.in_queue[idx] = 0 /\ rem[idx] > 0
                      THEN [Enqueue(qs, idx) EXCEPT !.in_queue[idx] = 1,
                                                    !.next = @ + 1]
                      ELSE [qs EXCEPT !.next = @ + 1],
                      now)
    ELSE qs

SetQueueState(qs) ==
    /\ queue' = qs.queue
    /\ rear' = qs.rear
    /\ queue_size' = qs.queue_size
    /\ in_queue' = qs.in_queue
    /\ next_arrival_idx' = qs.next

\* line 177
\* variant: every slice lasts the whole quantum
ExecTime_WholeQuantum(rem, q) == q

ExecTime(rem, q) == IF rem > q THEN q ELSE rem

\* lines 118-151: everything before the while loop
RRInit ==
    /\ pc = "rr_init"
    /\ LET sorted == SortByArrival(Active)
       IN  /\ sorted_idx' = sorted
           /\ SetQueueState(AdmitArrived(Active, sorted, QueueState, 0))
    /\ pc' = "rr_loop"
    /\ UNCHANGED <<inputVars, cloneVars, fcfsVars, simVars, finish_time,
                   front, curr, exec_time, waited, clock, order>>

\* lines 155-169: the queue is empty, jump to the next arrival
RRIdleJump ==
    /\ pc = "rr_loop"
    /\ complete < n
    /\ queue_size = 0
    /\ IF next_arrival_idx < n
       THEN /\ t' = Active[sorted_idx[next_arrival_idx]].art
            /\ SetQueueState(AdmitArrived(Active, sorted_idx, QueueState, t'))
       ELSE /\ UNCHANGED <<t, queue, rear, queue_size, in_queue,
                           next_arrival_idx>>
    /\ waited' = Accrue(waited, Active, Incomplete, -1, t, t')
    /\ clock' = t'
    /\ UNCHANGED <<inputVars, cloneVars, pc, fcfsVars, rem_bt, complete,
                   finish_time, front, sorted_idx, curr, exec_time, order>>

\* lines 172-179: take the head of the queue and run its slice
RRDispatch ==
    /\ pc = "rr_loop"
    /\ complete < n
    /\ queue_size # 0
    /\ curr' = queue[front]
    /\ front' = (front + 1) % n
    /\ queue_size' = queue_size - 1
    /\ exec_time' = ExecTime(rem_bt[curr'], quantum)
    /\ t' = t + exec_time'
    /\ rem_bt' = [rem_bt EXCEPT ![curr'] = @ - exec_time']
    /\ waited' = Accrue(waited, Active, Incomplete, curr', t, t')
    /\ clock' = t'
    /\ pc' = "rr_admit"
    /\ UNCHANGED <<inputVars, cloneVars, fcfsVars, complete, finish_time,
                   in_queue, queue, rear, sorted_idx, next_arrival_idx, order>>

\* lines 182-191
RRAdmit ==
    /\ pc = "rr_admit"
    /\ SetQueueState(AdmitNew(Active, sorted_idx, rem_bt, QueueState, t))
    /\ pc' = "rr_finish"
    /\ UNCHANGED <<inputVars, cloneVars, fcfsVars, simVars, finish_time,
                   front, sorted_idx, curr, exec_time, waited, clock, order>>

\* lines 194-199: the slice finished the process
RRComplete ==
    /\ pc = "rr_finish"
    /\ rem_bt[curr] = 0
    /\ complete' = complete + 1
    /\ finish_time' = [finish_time EXCEPT ![curr] = t]
    /\ SetActive([Active EXCEPT ![curr].wt = FinishWait(t, Active[curr])])
    /\ order' = Append(order, curr)
    /\ pc' = IF complete' < n THEN "rr_loop" ELSE "tat"
    /\ UNCHANGED <<inputVars, fcfsVars, rem_bt, t, in_queue, queue, front,
                   rear, queue_size, sorted_idx, next_arrival_idx, curr,
                   exec_time, waited, clock>>

\* lines 200-205: put the process back in the queue
RRRequeue ==
    /\ pc = "rr_finish"
    /\ rem_bt[curr] # 0
    /\ SetQueueState(Enqueue(QueueState, curr))
    /\ pc' = IF complete < n THEN "rr_loop" ELSE "tat"
    /\ UNCHANGED <<inputVars, cloneVars, fcfsVars, simVars, finish_time,
                   front, sorted_idx, curr, exec_time, waited, clock, order>>

Next ==
    \/ FindTurnAroundTime
    \/ FCFSFirst
    \/ FCFSStep
    \/ SortPriority
    \/ SJFIdle
    \/ SJFExec
    \/ RRInit
    \/ RRIdleJump
    \/ RRDispatch
    \/ RRAdmit
    \/ RRComplete
    \/ RRRequeue

Spec == Init /\ [][Next]_vars

\* The program is one thread that keeps executing until main returns.
SpecLive == Spec /\ WF_vars(Next)

\* ------------------------------------------------------------------------
\* Properties.

Returned == pc = "done"

\* The live entries of the circular queue, head first.
LiveQueue == [k \in 1 .. queue_size |-> queue[(front + k - 1) % n]]

\* The FCFS algorithm as a function of a batch: service time and waiting
\* time of position k (findWaitingTimeFCFS run on pl).
RECURSIVE FCFSService(_, _)
FCFSService(pl, k) ==
    IF k = 0 THEN pl[0].art
    ELSE FCFSServiceTime(FCFSService(pl, k - 1), pl, k)

FCFSResultWait(pl, k) ==
    IF k = 0 THEN 0 ELSE FCFSWait(FCFSService(pl, k), pl[k].art)

RECURSIVE SumBurstBefore(_, _)
SumBurstBefore(pl, k) ==
    IF k = 0 THEN 0 ELSE SumBurstBefore(pl, k - 1) + pl[k - 1].bt

\* C1: when any of the four engines has returned, every record of its batch
\* has turnaroundTime = burstTime + waitingTime.
C1_TurnaroundIsBurstPlusWait ==
    Returned => \A k \in Idx : Active[k].tat = Active[k].bt + Active[k].wt

C1_Witness ==
    /\ Returned
    /\ policy = "RR"
    /\ \E k \in Idx : Active[k].wt > 0 /\ Active[k].tat = Active[k].bt + Active[k].wt

\* C2: when any of the four engines has returned, every record has
\* waitingTime >= 0.
C2_WaitNonNegative ==
    Returned => \A k \in Idx : Active[k].wt >= 0

C2_Witness ==
    /\ Returned
    /\ policy = "FCFS"
    /\ \E k \in Idx : Active[k].wt = 0
    /\ \E k \in Idx : Active[k].wt > 0

\* C3: the waiting time an engine reports for a process is the number of
\* time units, from its arrival to its completion, at which it was not the
\* process holding the CPU.
C3_WaitIsTimeNotRunning ==
    Returned => \A k \in Idx : Active[k].wt = waited[k]

C3_Witness ==
    /\ Returned
    /\ policy = "SJF"
    /\ \E k \in Idx : waited[k] > 0 /\ Active[k].wt = waited[k]
    /\ \E k \in Idx : Active[k].art > 0

\* C4: the FCFS engine serves the batch in ascending arrival order (ties in
\* insertion order), one process at a time: of any two processes the earlier
\* arrival starts first and has finished when the other starts.
C4_FCFSServesInArrivalOrder ==
    (Returned /\ policy = "FCFS") =>
        \A a, b \in Idx :
            (\/ Active[a].art < Active[b].art
             \/ (Active[a].art = Active[b].art /\ a < b))
            => /\ service_time[a] < service_time[b]
               /\ service_time[a] + Active[a].bt <= service_time[b]

\* C5: under FCFS with every arrival time 0, the waiting time at input
\* position k is the sum of the burst times at positions 0 .. k-1.
C5_FCFSZeroArrivalPrefixSums ==
    (Returned /\ policy = "FCFS" /\ \A k \in Idx : plist[k].art = 0) =>
        \A k \in Idx : plist_fcfs[k].wt = SumBurstBefore(plist, k)

C5_Witness ==
    /\ Returned
    /\ policy = "FCFS"
    /\ n >= 2
    /\ \A k \in Idx : plist[k].art = 0
    /\ plist_fcfs[n - 1].wt = SumBurstBefore(plist, n - 1)
    /\ plist_fcfs[n - 1].wt > 0

\* C6: under SRTF, when no arrived incomplete process exists the clock jumps
\* straight to the least arrival time among the incomplete processes and no
\* process is charged any waiting for the gap; the batch
\* {(pid 1, bt 4, art 5), (pid 2, bt 2, art 10)} ends with waiting time 0
\* for pid 1.
NoArrivedIncomplete ==
    \A k \in Idx : ~(Active[k].art <= t /\ rem_bt[k] > 0)

IsLeastIncompleteArrival(a) ==
    /\ \E k \in Incomplete : Active[k].art = a
    /\ \A k \in Incomplete : a <= Active[k].art

C6_SRTFSkipsIdleGaps ==
    /\ [][(policy = "SJF" /\ pc = "sjf_loop" /\ NoArrivedIncomplete)
            => (IsLeastIncompleteArrival(t') /\ waited' = waited)]_vars
    /\ []((Returned /\ policy = "SJF" /\ plist = FixtureSRTF)
            => plist_sjf[0].wt = 0)

C6_Witness ==
    /\ Returned
    /\ policy = "SJF"
    /\ plist = FixtureSRTF
    /\ plist_sjf[0].wt = 0
    /\ order = <<0, 1>>
    /\ t = 12

\* C7: RR with a quantum >= every burst time completes the processes in the
\* order of the FCFS engine on the same batch, with the same waiting times.
C7_RRLargeQuantumIsFCFS ==
    (Returned /\ policy = "RR" /\ \A k \in Idx : quantum >= plist[k].bt) =>
        /\ order = [k \in 1 .. n |-> k - 1]
        /\ \A k \in Idx : plist_rr[k].wt = FCFSResultWait(plist, k)

\* C8: in the RR engine no process index occurs twice among the live entries
\* of the ready queue.
C8_NoDuplicateInQueue ==
    policy = "RR" =>
        \A a, b \in 1 .. queue_size : a # b => LiveQueue[a] # LiveQueue[b]

C8_Witness ==
    /\ policy = "RR"
    /\ pc = "rr_loop"
    /\ queue_size = 2
    /\ LiveQueue[1] # LiveQueue[2]
    /\ \E k \in Idx : /\ LiveQueue[2] = k
                      /\ rem_bt[k] > 0
                      /\ rem_bt[k] < Active[k].bt

\* C9: on {(pid 1, bt 5, art 0), (pid 2, bt 3, art 1), (pid 3, bt 1, art 2)}
\* with quantum 2 the ready queue is [pid 1] at t = 0 and [pid 2, pid 3,
\* pid 1] after pid 1's first slice; pid 3 completes at 5, pid 2 at 8, pid 1
\* at 9; the waiting times are 4, 4 and 2.
C9_RRFixtureTrace ==
    (policy = "RR" /\ plist = FixtureRR /\ quantum = DefaultQuantum) =>
        /\ (pc = "rr_loop" /\ t = 0) => LiveQueue = <<0>>
        /\ (pc = "rr_loop" /\ t = 2) => LiveQueue = <<1, 2, 0>>
        /\ Returned =>
              /\ order = <<2, 1, 0>>
              /\ finish_time = [k \in Idx |-> CASE k = 0 -> 9 [] k = 1 -> 8 [] OTHER -> 5]
              /\ plist_rr[0].wt = 4
              /\ plist_rr[1].wt = 4
              /\ plist_rr[2].wt = 2

C9_Witness ==
    /\ policy = "RR"
    /\ plist = FixtureRR
    /\ quantum = DefaultQuantum
    /\ Returned
    /\ order = <<2, 1, 0>>
    /\ plist_rr[0].wt = 4

\* C10: after the Priority engine's reordering, two processes of equal
\* priority are in the same relative order as in the input batch.
PositionOf(pl, pid) == CHOOSE k \in DOMAIN pl : pl[k].pid = pid

C10_PrioritySortStable ==
    (policy = "Priority" /\ pc # "sort") =>
        \A a, b \in Idx :
            (a < b /\ plist[a].pri = plist[b].pri)
            => PositionOf(plist_priority, plist[a].pid)
                 < PositionOf(plist_priority, plist[b].pid)

\* C11: after the Priority engine has run, its batch is a permutation of the
\* input in non-increasing priority order, and holds the waiting times the
\* FCFS algorithm computes on that reordered sequence.
SameRecord(p, q) ==
    p.pid = q.pid /\ p.bt = q.bt /\ p.art = q.art /\ p.pri = q.pri

IsReordering(pl, orig) ==
    \E f \in Arrangements(DOMAIN orig) :
        \A k \in DOMAIN orig : SameRecord(pl[k], orig[f[k]])

C11_PriorityIsFCFSOnDescendingPriority ==
    (Returned /\ policy = "Priority") =>
        /\ IsReordering(plist_priority, plist)
        /\ \A a, b \in Idx :
              a < b => plist_priority[a].pri >= plist_priority[b].pri
        /\ \A k \in Idx :
              plist_priority[k].wt = FCFSResultWait(plist_priority, k)

C11_Witness ==
    /\ Returned
    /\ policy = "Priority"
    /\ n >= 2
    /\ plist[0].pri < plist[1].pri
    /\ plist_priority[0].pid = plist[1].pid
    /\ plist_priority[1].wt > 0

\* C12: the SRTF engine is deterministic: in every state of its simulation
\* at most one process can be the one run next, the clock and each waiting
\* time have at most one possible next value, and running and idling are
\* never both possible.
C12_SRTFDeterministic ==
    policy = "SJF" =>
        /\ Cardinality({ k \in Idx :
              ENABLED (Next /\ rem_bt'[k] # rem_bt[k]) }) <= 1
        /\ Cardinality({ x \in 0 .. (t + 1) \cup { Active[k].art : k \in Idx } :
              ENABLED (Next /\ t' = x /\ pc = "sjf_loop") }) <= 1
        /\ \A k \in Idx :
              Cardinality({ w \in 0 .. (t + 1) :
                 ENABLED (Next /\ plist_sjf'[k].wt = w /\ rem_bt'[k] # rem_bt[k]) }) <= 1
        /\ ~(ENABLED SJFIdle /\ ENABLED SJFExec)

C12_Witness ==
    /\ policy = "SJF"
    /\ pc = "sjf_loop"
    /\ ENABLED SJFExec
    /\ \E a, b \in Idx :
          /\ a # b
          /\ Active[a].art <= t /\ Active[b].art <= t
          /\ rem_bt[a] > 0
          /\ rem_bt[a] = rem_bt[b]

Ready(k) == Active[k].art <= t /\ rem_bt[k] > 0

\* C14: the SRTF and RR simulations terminate, and when they have, every
\* process has been completed exactly once: its remaining time is 0 and its
\* waiting time was assigned (it occurs once in the completion order).
\* Termination is stated by a variant: a simulation that has not returned
\* always has a step to take, and every step strictly decreases a measure
\* that is a natural number, whatever the length of the idle gap crossed.
RECURSIVE SumRemaining(_)
SumRemaining(k) == IF k < 0 THEN 0 ELSE rem_bt[k] + SumRemaining(k - 1)

Variant ==
    CASE pc = "done" -> 0
      [] pc = "tat" -> 1
      [] pc = "sjf_loop" ->
            2 * SumRemaining(n - 1) + 2
              + (IF \E k \in Idx : Ready(k) THEN 0 ELSE 1)
      [] pc = "rr_init" -> 4 * SumRemaining(n - 1) + 6
      [] pc = "rr_admit" -> 4 * SumRemaining(n - 1) + 5
      [] pc = "rr_finish" -> 4 * SumRemaining(n - 1) + 4
      [] OTHER -> 4 * SumRemaining(n - 1) + 2 + (IF queue_size = 0 THEN 1 ELSE 0)

C14_SimulationsTerminate ==
    /\ []((policy \in {"SJF", "RR"}) =>
            /\ Variant \in Nat
            /\ Returned \/ ENABLED <<Next>>_vars)
    /\ [][(policy \in {"SJF", "RR"}) => Variant' < Variant]_vars
    /\ []((Returned /\ policy \in {"SJF", "RR"}) =>
            /\ complete = n
            /\ \A k \in Idx : rem_bt[k] = 0
            /\ Len(order) = n
            /\ \A k \in Idx : \E a \in 1 .. n : order[a] = k)

C14_Witness ==
    /\ Returned
    /\ policy = "RR"
    /\ plist = FixtureSRTF
    /\ t = 12
    /\ order = <<0, 1>>
    /\ \A k \in Idx : rem_bt[k] = 0

\* C15: every time unit the SRTF engine executes goes to a process that has
\* arrived and is incomplete, with the least remaining time among such
\* processes and the lowest index among those of least remaining time; the
\* clock moves without a process running only when no such process exists.
C15_SRTFRunsShortestRemaining ==
    [][(policy = "SJF" /\ pc = "sjf_loop") =>
          /\ \A k \in Idx :
                rem_bt'[k] # rem_bt[k] =>
                   /\ rem_bt'[k] = rem_bt[k] - 1
                   /\ t' = t + 1
                   /\ Ready(k)
                   /\ \A j \in Idx : Ready(j) => rem_bt[k] <= rem_bt[j]
                   /\ \A j \in Idx :
                         (Ready(j) /\ rem_bt[j] = rem_bt[k]) => k <= j
          /\ rem_bt' = rem_bt => \A k \in Idx : ~Ready(k)]_vars

C15_Witness ==
    /\ policy = "SJF"
    /\ pc = "sjf_loop"
    /\ n >= 2
    /\ t = 1
    /\ Active[0].art = 0 /\ Active[1].art = 0
    /\ Active[0].bt = Active[1].bt
    /\ rem_bt[0] = Active[0].bt - 1
    /\ rem_bt[1] = Active[1].bt

\* C16: the FCFS algorithm follows the service-time recurrence: the first
\* process starts at its arrival with waiting time 0; process i starts at
\* max(start[i-1] + burst[i-1], arrival[i]) and waits start[i] - arrival[i];
\* it starts neither before it arrives nor before its predecessor finished,
\* and the CPU idles before it only if the predecessor finished before it
\* arrived.
C16_FCFSRecurrence ==
    (Returned /\ policy \in {"FCFS", "Priority"}) =>
        /\ service_time[0] = Active[0].art
        /\ Active[0].wt = 0
        /\ \A k \in Idx \ {0} :
              LET free == service_time[k - 1] + Active[k - 1].bt
              IN  /\ service_time[k] = Max(free, Active[k].art)
                  /\ Active[k].wt = service_time[k] - Active[k].art
                  /\ service_time[k] >= Active[k].art
                  /\ service_time[k] >= free
                  /\ service_time[k] > free => free < Active[k].art

C16_Witness ==
    /\ Returned
    /\ policy = "FCFS"
    /\ n >= 2
    /\ service_time[0] + Active[0].bt < Active[1].art
    /\ service_time[1] = Active[1].art
    /\ Active[1].wt = 0

\* C17: in the RR engine, after the slice of curr every process that has
\* arrived by the updated clock and was not yet admitted is appended to the
\* queue, in arrival order with ties in insertion order, and only then is
\* curr appended: whoever arrived during or at the end of the slice is ahead
\* of curr.
IsPrefix(a, b) ==
    Len(a) <= Len(b) /\ \A k \in 1 .. Len(a) : a[k] = b[k]

ArrivesBefore(a, b) ==
    \/ Active[a].art < Active[b].art
    \/ (Active[a].art = Active[b].art /\ a < b)

C17_RRAdmitsArrivalsBeforeRequeue ==
    /\ [](policy = "RR" /\ pc \in {"rr_loop", "rr_finish", "tat", "done"} =>
            \A k \in Idx : Active[k].art <= t => in_queue[k] = 1)
    /\ [][(policy = "RR" /\ pc = "rr_admit") =>
            /\ IsPrefix(LiveQueue, LiveQueue')
            /\ \A k \in Idx :
                  (in_queue[k] = 0 /\ Active[k].art <= t)
                  <=> (\E a \in (queue_size + 1) .. queue_size' : LiveQueue'[a] = k)
            /\ \A a, b \in (queue_size + 1) .. queue_size' :
                  a < b => ArrivesBefore(LiveQueue'[a], LiveQueue'[b])]_vars
    /\ [][(policy = "RR" /\ pc = "rr_finish" /\ rem_bt[curr] # 0) =>
            LiveQueue' = Append(LiveQueue, curr)]_vars

C17_Witness ==
    /\ policy = "RR"
    /\ pc = "rr_loop"
    /\ queue_size = 2
    /\ LiveQueue[2] = curr
    /\ rem_bt[curr] > 0
    /\ Active[LiveQueue[1]].art = t
    /\ rem_bt[LiveQueue[1]] = Active[LiveQueue[1]].bt

\* C18: every RR dispatch takes the head of the ready queue and runs it for
\* min(remaining, quantum) units, moving the clock and the remaining time of
\* that process by that amount; a slice never exceeds the quantum, no
\* remaining time becomes negative, and the dispatched process has arrived.
C18_RRDispatchSlice ==
    /\ [](policy = "RR" => \A k \in Idx : rem_bt[k] >= 0)
    /\ [][(policy = "RR" /\ pc = "rr_loop" /\ pc' = "rr_admit") =>
            /\ curr' = LiveQueue[1]
            /\ exec_time' = (IF rem_bt[curr'] < quantum
                             THEN rem_bt[curr'] ELSE quantum)
            /\ exec_time' <= quantum
            /\ t' = t + exec_time'
            /\ rem_bt'[curr'] = rem_bt[curr'] - exec_time'
            /\ \A k \in Idx \ {curr'} : rem_bt'[k] = rem_bt[k]
            /\ Active[curr'].art <= t]_vars

C18_Witness ==
    /\ policy = "RR"
    /\ pc = "rr_admit"
    /\ exec_time < quantum
    /\ rem_bt[curr] = 0
    /\ \E k \in Idx : rem_bt[k] > 0 /\ rem_bt[k] < Active[k].bt

\* C19: the clamp of a negative waiting time never takes effect: the value
\* service_time - arrival of FCFS and the value finish - burst - arrival of
\* SRTF and RR are >= 0 whenever they are computed, and the simulated clock
\* never decreases.
C19_ClampNeverTakesEffect ==
    /\ [](policy \in {"FCFS", "Priority"} =>
            \A k \in Idx : k < i => service_time[k] - Active[k].art >= 0)
    /\ [][(policy \in {"SJF", "RR"}) =>
            /\ t' >= t
            /\ \A k \in Idx :
                  order' = Append(order, k) =>
                     t' - Active[k].bt - Active[k].art >= 0]_vars

C19_Witness ==
    /\ Returned
    /\ policy = "SJF"
    /\ \E k \in Idx : /\ Active[k].art > 0
                      /\ order[Len(order)] = k
                      /\ t - Active[k].bt - Active[k].art = 0
                      /\ Active[k].wt = 0

\* C20: the circular ready queue of the RR engine never overflows:
\* 0 <= queue_size <= n, queue_size is the distance from front to rear
\* modulo n, a dequeue happens only on a non-empty queue, and an enqueue
\* never overwrites an entry that is still waiting.
C20_QueueNeverOverflows ==
    /\ [](policy = "RR" =>
            /\ 0 <= queue_size /\ queue_size <= n
            /\ front \in Idx /\ rear \in Idx
            /\ (rear - front) % n = queue_size % n)
    /\ [][policy = "RR" =>
            IF pc = "rr_loop" /\ pc' = "rr_admit"
            THEN queue_size > 0 /\ LiveQueue' = Tail(LiveQueue)
            ELSE IsPrefix(LiveQueue, LiveQueue')]_vars

C20_Witness ==
    /\ policy = "RR"
    /\ n >= 2
    /\ queue_size = n
    /\ rear = front
    /\ front # 0
====
